---------------------------- MODULE Spec2Model ----------------------------
(***************************************************************************)
(* Model of the stock dashboard of src/run.py: the four stage functions     *)
(* (fetch_stock_data, process_data, add_technical_indicators,               *)
(* calculate_metrics) and the Update handler that composes them.            *)
(*                                                                          *)
(* Floating-point prices are modelled exactly: a column cell is a natural   *)
(* number or NaN, a derived value (average, metric) is a reduced fraction   *)
(* <<num, den>> with den > 0, and the missing value is the fraction <<0,0>>.*)
(* A DataFrame is a record of its index and its columns.                    *)
(***************************************************************************)
EXTENDS Integers, Sequences, FiniteSets, TLC

VARIABLES
    pc,          \* position of the running code
    ticker,      \* sidebar text input (line 88)
    period,      \* sidebar time period (line 89)
    chart_type,  \* sidebar chart type (line 90)
    now,         \* what datetime.now() returns, in days
    provider,    \* what yf.download is going to answer: a frame, or a raise
    calls,       \* the yf.download calls made so far, with their keywords
    input,       \* the frame handed to the stage function called last
    data,        \* the handler's variable data: the frame returned last
    metrics,     \* what calculate_metrics returned
    lib,         \* how the calls into the ta library are going to end
    msgs,        \* the st.error messages shown, by origin
    invoked,     \* the stage functions invoked so far
    shown        \* the widgets rendered so far

vars == <<pc, ticker, period, chart_type, now, provider, calls, input, data,
          metrics, lib, msgs, invoked, shown>>

-----------------------------------------------------------------------------
(* Bounds of the model *)

MaxPrice == 2
MaxRows == 22
TailLen == 3
MaxShortRows == 2
MaxNow == 9

(* Program constants *)

Window == 20
WeekDays == 7
NaN == -1

-----------------------------------------------------------------------------
(* Exact arithmetic on fractions *)

RECURSIVE Gcd(_, _)
Gcd(a, b) == IF b = 0 THEN a ELSE Gcd(b, a % b)

Abs(x) == IF x < 0 THEN 0 - x ELSE x

NaNF == <<0, 0>>

IsNaNF(r) == r[2] = 0

Frac(n, d) ==
    IF d = 0 THEN NaNF
    ELSE LET g == Gcd(Abs(n), Abs(d))
             s == IF d < 0 THEN 0 - 1 ELSE 1
         IN <<(s * n) \div g, (s * d) \div g>>

\* float(x) of a column cell
ToFloat(x) == IF x = NaN THEN NaNF ELSE <<x, 1>>

FSub(a, b) ==
    IF IsNaNF(a) \/ IsNaNF(b) THEN NaNF
    ELSE Frac(a[1] * b[2] - b[1] * a[2], a[2] * b[2])

FMulInt(a, k) == IF IsNaNF(a) THEN NaNF ELSE Frac(a[1] * k, a[2])

\* a / b for b # 0 (Python raises ZeroDivisionError for b = 0: see calculate_metrics)
FDiv(a, b) ==
    IF IsNaNF(a) \/ IsNaNF(b) THEN NaNF
    ELSE Frac(a[1] * b[2], a[2] * b[1])

-----------------------------------------------------------------------------
(* DataFrames *)

\* A column: its cells and, for a datetime column, its timezone.
Col(tz, vals) == [tz |-> tz, vals |-> vals]

NumCol(vals) == Col("none", vals)

NoCols == [c \in {} |-> NumCol(<<>>)]

\* pd.DataFrame()
EmptyFrame ==
    [kind |-> "range", tz |-> "none", name |-> "none", idx |-> <<>>, cols |-> NoCols]

\* Mutant: the test is "data is None", which no frame is.
IsNone(d) == FALSE

\* data.empty: an axis of length 0
IsEmpty(d) == Len(d.idx) = 0 \/ DOMAIN d.cols = {}

HasCol(d, c) == c \in DOMAIN d.cols

WithCol(d, c, col) ==
    [d EXCEPT !.cols = [x \in DOMAIN d.cols \cup {c} |-> IF x = c THEN col ELSE d.cols[x]]]

RangeOf(n) == [i \in 1..n |-> i - 1]

-----------------------------------------------------------------------------
(* fetch_stock_data, lines 15-30 *)

interval_mapping ==
    [p \in {"1d", "1wk", "1mo", "1y", "max"} |->
        CASE p = "1d" -> "1m"
          [] p = "1wk" -> "30m"
          [] p = "1mo" -> "1d"
          [] p = "1y" -> "1wk"
          [] p = "max" -> "1wk"]

\* Mutant: the week is left to the provider's period keyword.
DownloadCallByPeriod(t, p, i, n) ==
    [ticker |-> t, kw |-> {"period", "interval"},
     start |-> 0, end |-> 0, period |-> p, interval |-> i]

\* The keywords of the yf.download call (lines 17-22). kw is the set of keywords
\* passed; a keyword that is not passed has the value 0 or "".
DownloadCall(t, p, i, n) ==
    IF p = "1wk"
    THEN [ticker |-> t, kw |-> {"start", "end", "interval"},
          start |-> n - WeekDays, end |-> n, period |-> "", interval |-> i]
    ELSE [ticker |-> t, kw |-> {"period", "interval"},
          start |-> 0, end |-> 0, period |-> p, interval |-> i]

\* The provider's answer is a frame, or the call raises. An empty answer raises
\* ValueError inside the try (line 26); every raise ends in st.error and an empty
\* frame (lines 28-30).
fetch_stock_data(answer) ==
    IF answer.raises \/ IsEmpty(answer.frame)
    THEN [data |-> EmptyFrame, err |-> TRUE]
    ELSE [data |-> answer.frame, err |-> FALSE]

-----------------------------------------------------------------------------
(* process_data, lines 33-43 *)

\* index.tz_localize('UTC') when the index is naive (lines 35-36): the stored
\* instants are kept and labelled UTC.
TzLocalize(d) == IF d.tz = "naive" THEN [d EXCEPT !.tz = "UTC"] ELSE d

\* Mutant: the conversion to US/Eastern is left out.
TzKeep(d) == d

\* index.tz_convert('US/Eastern') (line 37): the stored instants are kept, the
\* zone they are shown in changes.
TzConvert(d) == [d EXCEPT !.tz = "US/Eastern"]

\* data.reset_index(inplace=True) (line 38): the index becomes a column of its
\* name and a RangeIndex takes its place.
ResetIndex(d) ==
    [kind |-> "range", tz |-> "none", name |-> "none", idx |-> RangeOf(Len(d.idx)),
     cols |-> [x \in DOMAIN d.cols \cup {d.name} |->
                  IF x = d.name THEN Col(d.tz, d.idx) ELSE d.cols[x]]]

\* data.rename(columns={'Date': 'Datetime'}, inplace=True) (line 39)
RenameDate(d) ==
    IF HasCol(d, "Date")
    THEN [d EXCEPT !.cols = [x \in (DOMAIN d.cols \ {"Date"}) \cup {"Datetime"} |->
                                IF x = "Datetime" THEN d.cols["Date"] ELSE d.cols[x]]]
    ELSE d

\* Only a DatetimeIndex has .tzinfo (line 35: AttributeError otherwise), and
\* reset_index cannot insert a column that exists already (line 38: ValueError).
ProcessRaises(d) == d.kind # "datetime" \/ HasCol(d, d.name)

process_data(d) ==
    IF ProcessRaises(d)
    THEN [data |-> EmptyFrame, err |-> TRUE]
    ELSE [data |-> RenameDate(ResetIndex(TzConvert(TzLocalize(d)))), err |-> FALSE]

-----------------------------------------------------------------------------
(* add_technical_indicators, lines 61-76 *)

AllNaN(s) == \A i \in 1..Len(s) : s[i] = NaN

\* fillna(method='ffill'): a missing cell takes the nearest earlier present one
RECURSIVE FFillTo(_, _)
FFillTo(s, i) ==
    IF i = 0 THEN NaN
    ELSE IF s[i] # NaN THEN s[i] ELSE FFillTo(s, i - 1)

FFill(s) == [i \in 1..Len(s) |-> FFillTo(s, i)]

\* fillna(method='bfill'): a missing cell takes the nearest later present one
RECURSIVE BFillTo(_, _)
BFillTo(s, i) ==
    IF i > Len(s) THEN NaN
    ELSE IF s[i] # NaN THEN s[i] ELSE BFillTo(s, i + 1)

BFill(s) == [i \in 1..Len(s) |-> BFillTo(s, i)]

\* Mutant: the backward fill is left out.
FillForwardOnly(s) == FFill(s)

\* lines 67-68
FillClose(s) == BFill(FFill(s))

RECURSIVE SumTo(_, _, _)
SumTo(s, lo, hi) == IF lo > hi THEN 0 ELSE s[hi] + SumTo(s, lo, hi - 1)

\* Mutant: min_periods = 1, the mean of the rows there are so far.
SmaOfAvailable(s, w) ==
    [i \in 1..Len(s) |->
        LET lo == IF i < w THEN 1 ELSE i - w + 1
        IN IF \E j \in lo..i : s[j] = NaN
           THEN NaNF
           ELSE Frac(SumTo(s, lo, i), i - lo + 1)]

\* ta.trend.sma_indicator(close, window): close.rolling(window,
\* min_periods=window).mean(). Row i (1-based) is missing unless the window
\* i-window+1..i lies in the series and holds no missing cell.
sma_indicator(s, w) ==
    [i \in 1..Len(s) |->
        IF i < w \/ (\E j \in (i - w + 1)..i : s[j] = NaN)
        THEN NaNF
        ELSE Frac(SumTo(s, i - w + 1, i), w)]

\* close.ewm(span=window, adjust=False).mean() up to row i: the first present
\* cell seeds it, and each later one enters with alpha = 2 / (window + 1):
\*   y[i] = (2 * x[i] + (window - 1) * y[i-1]) / (window + 1)
RECURSIVE Ewm(_, _, _)
Ewm(s, w, i) ==
    IF i = 0 THEN NaNF
    ELSE LET y == Ewm(s, w, i - 1)
         IN IF s[i] = NaN THEN y
            ELSE IF IsNaNF(y) THEN <<s[i], 1>>
            ELSE Frac(2 * s[i] * y[2] + (w - 1) * y[1], (w + 1) * y[2])

Present(s, i) == Cardinality({j \in 1..i : s[j] # NaN})

\* Mutant: the average is seeded at row window by the mean of the first window.
RECURSIVE EwmFromSma(_, _, _)
EwmFromSma(s, w, i) ==
    IF i < w \/ (\E j \in 1..w : s[j] = NaN) THEN NaNF
    ELSE IF i = w THEN Frac(SumTo(s, 1, w), w)
    ELSE LET y == EwmFromSma(s, w, i - 1)
         IN Frac(2 * s[i] * y[2] + (w - 1) * y[1], (w + 1) * y[2])

EmaSeededBySma(s, w) == [i \in 1..Len(s) |-> EwmFromSma(s, w, i)]

\* ta.trend.ema_indicator(close, window): close.ewm(span=window,
\* min_periods=window, adjust=False).mean(): the running value, shown from the
\* window-th present cell on.
ema_indicator(s, w) ==
    [i \in 1..Len(s) |-> IF Present(s, i) < w THEN NaNF ELSE Ewm(s, w, i)]

\* The fills of lines 67-68 are taken as written for the pandas they were
\* written for: data['Close'] is the frame's own column and inplace=True fills
\* it. The keyword window fixes the ta release at 0.7.0 or later.
\* outcome is how the two library calls of lines 71-72 end: "ok", or the one
\* that raises. The frame is changed in place, so a raise leaves what the
\* earlier lines did.
add_technical_indicators(d, outcome) ==
    IF ~HasCol(d, "Close") \/ AllNaN(d.cols["Close"].vals)
    THEN [data |-> d, err |-> TRUE]
    ELSE LET close == FillClose(d.cols["Close"].vals)
             d1 == WithCol(d, "Close", NumCol(close))
             d2 == WithCol(d1, "SMA_20", NumCol(sma_indicator(close, Window)))
             d3 == WithCol(d2, "EMA_20", NumCol(ema_indicator(close, Window)))
         IN CASE outcome = "sma_raises" -> [data |-> d1, err |-> TRUE]
              [] outcome = "ema_raises" -> [data |-> d2, err |-> TRUE]
              [] OTHER -> [data |-> d3, err |-> FALSE]

-----------------------------------------------------------------------------
(* calculate_metrics, lines 46-58 *)

Present1(s) == {i \in 1..Len(s) : s[i] # NaN}

\* Mutant: the first row's cell instead of the greatest.
ColFirst(s) == <<s[1], 1>>

\* Series.max() and Series.min() skip missing cells; of none they are missing.
ColMax(s) ==
    IF Present1(s) = {} THEN NaNF
    ELSE <<CHOOSE m \in {s[i] : i \in Present1(s)} : \A i \in Present1(s) : s[i] <= m, 1>>

ColMin(s) ==
    IF Present1(s) = {} THEN NaNF
    ELSE <<CHOOSE m \in {s[i] : i \in Present1(s)} : \A i \in Present1(s) : s[i] >= m, 1>>

RECURSIVE SumPresent(_, _)
SumPresent(s, i) ==
    IF i = 0 THEN 0
    ELSE (IF s[i] = NaN THEN 0 ELSE s[i]) + SumPresent(s, i - 1)

\* Series.sum() skips missing cells
ColSum(s) == <<SumPresent(s, Len(s)), 1>>

ZeroMetrics ==
    [last |-> <<0, 1>>, change |-> <<0, 1>>, pct |-> <<0, 1>>,
     high |-> <<0, 1>>, low |-> <<0, 1>>, volume |-> <<0, 1>>]

\* Mutant: the division by a zero first Close does not raise (numpy floats).
MetricsRaisesNoZero(d) ==
    \/ ~({"Close", "High", "Low", "Volume"} \subseteq DOMAIN d.cols)
    \/ Len(d.idx) = 0

\* What raises inside the try: a column that is not there (KeyError), no row
\* (IndexError), a division of Python floats by zero (ZeroDivisionError).
MetricsRaises(d) ==
    \/ ~({"Close", "High", "Low", "Volume"} \subseteq DOMAIN d.cols)
    \/ Len(d.idx) = 0
    \/ d.cols["Close"].vals[1] = 0

calculate_metrics(d) ==
    IF MetricsRaises(d)
    THEN [m |-> ZeroMetrics, err |-> TRUE]
    ELSE LET close == d.cols["Close"].vals
             last_close == ToFloat(close[Len(close)])
             prev_close == ToFloat(close[1])
             change == FSub(last_close, prev_close)
         IN [m |-> [last |-> last_close,
                    change |-> change,
                    pct |-> FMulInt(FDiv(change, prev_close), 100),
                    high |-> ColMax(d.cols["High"].vals),
                    low |-> ColMin(d.cols["Low"].vals),
                    volume |-> ColSum(d.cols["Volume"].vals)],
             err |-> FALSE]

-----------------------------------------------------------------------------
(* The inputs *)

Periods == {"1d", "1wk", "1mo", "1y", "max"}

ChartTypes == {"Candlestick", "Line"}

Libs == {"ok", "sma_raises", "ema_raises"}

Cells == 0..MaxPrice

CellsOrNaN == Cells \cup {NaN}

SeqsOf(S, n) == [1..n -> S]

\* yfinance names the index Datetime for intraday bars and Date for the others.
IndexName(i) == IF i \in {"1m", "30m"} THEN "Datetime" ELSE "Date"

ConstCol(n, v) == NumCol([i \in 1..n |-> v])

\* A frame as the provider returns it: a time index and the OHLCV columns.
RawFrame(kind, tz, name, close, high, low, volume) ==
    [kind |-> kind, tz |-> tz, name |-> name, idx |-> RangeOf(Len(close)),
     cols |-> [c \in {"Open", "High", "Low", "Close", "Volume"} |->
                 CASE c = "Close" -> NumCol(close)
                   [] c = "High" -> NumCol(high)
                   [] c = "Low" -> NumCol(low)
                   [] c = "Volume" -> NumCol(volume)
                   [] OTHER -> ConstCol(Len(close), 1)]]

DropCol(d, c) ==
    IF c = "nothing" THEN d ELSE [d EXCEPT !.cols = [x \in DOMAIN d.cols \ {c} |-> d.cols[x]]]

Ones(n) == [i \in 1..n |-> 1]

\* A frame of the refresh: a few rows, any closing prices, maybe a column short,
\* maybe an index that is no DatetimeIndex.
ShortFrame(k, name, close, drop) ==
    DropCol(RawFrame(k[1], k[2], name, close, Ones(Len(close)), Ones(Len(close)),
                     Ones(Len(close))), drop)

IndexKinds == {<<"datetime", "naive">>, <<"datetime", "UTC">>, <<"object", "none">>}

\* What yf.download answers: it raises, it returns no row, or it returns a frame.
Answer(how, f) ==
    CASE how = "raises" -> [raises |-> TRUE, frame |-> EmptyFrame]
      [] how = "empty" -> [raises |-> FALSE, frame |-> EmptyFrame]
      [] OTHER -> [raises |-> FALSE, frame |-> f]

-----------------------------------------------------------------------------
(* The Update handler, lines 103-157 *)

Say(m, err) == IF err THEN Append(msgs, m) ELSE msgs

Init ==
    /\ pc = "idle"
    /\ ticker = "ADBE"
    /\ period \in Periods
    /\ chart_type \in ChartTypes
    /\ now \in (MaxNow - 1)..MaxNow
    /\ \E how \in {"raises", "empty", "frame"}, k \in IndexKinds,
          drop \in {"nothing", "Close", "Volume"}, n \in 1..MaxShortRows :
          \E close \in SeqsOf(CellsOrNaN, n) :
              provider = Answer(how, ShortFrame(k, IndexName(interval_mapping[period]),
                                                close, drop))
    /\ lib \in Libs
    /\ calls = <<>>
    /\ input = EmptyFrame
    /\ data = EmptyFrame
    /\ metrics = ZeroMetrics
    /\ msgs = <<>>
    /\ invoked = {}
    /\ shown = {}

\* line 106: the button is pressed and fetch_stock_data runs
Fetch ==
    /\ pc = "idle"
    /\ LET r == fetch_stock_data(provider)
       IN /\ data' = r.data
          /\ msgs' = Say("fetch", r.err)
    /\ calls' = Append(calls, DownloadCall(ticker, period, interval_mapping[period], now))
    /\ invoked' = invoked \cup {"fetch_stock_data"}
    /\ pc' = "fetched"
    /\ UNCHANGED <<ticker, period, chart_type, now, provider, input, metrics, lib, shown>>

\* lines 107-109: st.error and st.stop(). st.stop() leaves the script by
\* Streamlit's StopException, a BaseException: the except Exception of line 157
\* does not take it, and Streamlit ends the run without a report.
StopEmpty ==
    /\ pc = "fetched"
    /\ IsEmpty(data)
    /\ msgs' = Append(msgs, "no_data")
    /\ pc' = "stopped"
    /\ UNCHANGED <<ticker, period, chart_type, now, provider, calls, input, data,
                   metrics, lib, invoked, shown>>

\* line 111
Process ==
    /\ pc = "fetched"
    /\ ~IsEmpty(data)
    /\ LET r == process_data(data)
       IN /\ data' = r.data
          /\ msgs' = Say("process", r.err)
    /\ input' = data
    /\ invoked' = invoked \cup {"process_data"}
    /\ pc' = "processed"
    /\ UNCHANGED <<ticker, period, chart_type, now, provider, calls, metrics, lib, shown>>

\* line 112
Indicators ==
    /\ pc = "processed"
    /\ LET r == add_technical_indicators(data, lib)
       IN /\ data' = r.data
          /\ msgs' = Say("indicators", r.err)
    /\ input' = data
    /\ invoked' = invoked \cup {"add_technical_indicators"}
    /\ pc' = "indicated"
    /\ UNCHANGED <<ticker, period, chart_type, now, provider, calls, metrics, lib, shown>>

\* line 115
Metrics ==
    /\ pc = "indicated"
    /\ LET r == calculate_metrics(data)
       IN /\ metrics' = r.m
          /\ msgs' = Say("metrics", r.err)
    /\ input' = data
    /\ invoked' = invoked \cup {"calculate_metrics"}
    /\ pc' = "measured"
    /\ UNCHANGED <<ticker, period, chart_type, now, provider, calls, data, lib, shown>>

\* lines 118-123: the metric widgets; numbers and nan both format
ShowMetrics ==
    /\ pc = "measured"
    /\ shown' = shown \cup {"metrics"}
    /\ pc' = "metrics_shown"
    /\ UNCHANGED <<ticker, period, chart_type, now, provider, calls, input, data,
                   metrics, lib, msgs, invoked>>

\* The columns the chart reads (lines 128-134); one that is not there raises.
ChartCols ==
    IF chart_type = "Candlestick"
    THEN {"Datetime", "Open", "High", "Low", "Close"}
    ELSE {"Datetime", "Close"}

\* lines 126-148
Chart ==
    /\ pc = "metrics_shown"
    /\ IF ChartCols \subseteq DOMAIN data.cols
       THEN /\ shown' = shown \cup {"chart"}
            /\ pc' = "charted"
       ELSE /\ shown' = shown
            /\ pc' = "raised"
    /\ UNCHANGED <<ticker, period, chart_type, now, provider, calls, input, data,
                   metrics, lib, msgs, invoked>>

TableCols == {"Datetime", "Open", "High", "Low", "Close", "Volume"}

\* lines 151-152: the table of the raw bars
ShowData ==
    /\ pc = "charted"
    /\ IF TableCols \subseteq DOMAIN data.cols
       THEN /\ shown' = shown \cup {"table"}
            /\ pc' = "tabled"
       ELSE /\ shown' = shown
            /\ pc' = "raised"
    /\ UNCHANGED <<ticker, period, chart_type, now, provider, calls, input, data,
                   metrics, lib, msgs, invoked>>

\* lines 154-156: the table of the indicators, when both columns are there
ShowIndicators ==
    /\ pc = "tabled"
    /\ shown' = IF {"SMA_20", "EMA_20"} \subseteq DOMAIN data.cols
                THEN shown \cup {"indicators"}
                ELSE shown
    /\ pc' = "done"
    /\ UNCHANGED <<ticker, period, chart_type, now, provider, calls, input, data,
                   metrics, lib, msgs, invoked>>

\* line 157: the handler's own except clause takes what the rendering raised
HandlerExcept ==
    /\ pc = "raised"
    /\ msgs' = Append(msgs, "handler")
    /\ pc' = "caught"
    /\ UNCHANGED <<ticker, period, chart_type, now, provider, calls, input, data,
                   metrics, lib, invoked, shown>>

Next ==
    \/ Fetch
    \/ StopEmpty
    \/ Process
    \/ Indicators
    \/ Metrics
    \/ ShowMetrics
    \/ Chart
    \/ ShowData
    \/ ShowIndicators
    \/ HandlerExcept

Spec == Init /\ [][Next]_vars

-----------------------------------------------------------------------------
(* The stage functions on their own: the arguments are drawn, the function is *)
(* applied, and its argument (input) and its result (data) are kept.          *)

Idle(d, l) ==
    /\ pc = "args"
    /\ ticker = "ADBE"
    /\ period = "1d"
    /\ chart_type = "Candlestick"
    /\ now = MaxNow
    /\ provider = [raises |-> FALSE, frame |-> EmptyFrame]
    /\ lib = l
    /\ calls = <<>>
    /\ input = EmptyFrame
    /\ data = d
    /\ metrics = ZeroMetrics
    /\ msgs = <<>>
    /\ invoked = {}
    /\ shown = {}

(* process_data, once and then on its own result *)

Zones == {"naive", "UTC", "US/Eastern", "Asia/Tokyo"}

InitNormalize ==
    \E tz \in Zones, name \in {"Date", "Datetime"}, n \in 1..MaxShortRows :
        \E close \in SeqsOf(CellsOrNaN, n) :
            Idle(RawFrame("datetime", tz, name, close, Ones(n), Ones(n), Ones(n)), "ok")

NormalizeOnce ==
    /\ pc = "args"
    /\ LET r == process_data(data)
       IN /\ data' = r.data
          /\ msgs' = Say("process", r.err)
    /\ input' = data
    /\ invoked' = invoked \cup {"process_data"}
    /\ pc' = "once"
    /\ UNCHANGED <<ticker, period, chart_type, now, provider, calls, metrics, lib, shown>>

NormalizeTwice ==
    /\ pc = "once"
    /\ LET r == process_data(data)
       IN /\ data' = r.data
          /\ msgs' = Say("process", r.err)
    /\ input' = data
    /\ pc' = "twice"
    /\ UNCHANGED <<ticker, period, chart_type, now, provider, calls, metrics, lib,
                   invoked, shown>>

NextNormalize == NormalizeOnce \/ NormalizeTwice

SpecNormalize == InitNormalize /\ [][NextNormalize]_vars

(* calculate_metrics *)

Processed(d) == process_data(d).data

\* A processed frame with any closing prices and one of High, Low and Volume
\* free, maybe short of a column
InitMetrics ==
    \E free \in {"High", "Low", "Volume"}, drop \in {"nothing", "Close", "High"},
       n \in 1..MaxShortRows :
        \E close \in SeqsOf(CellsOrNaN, n), other \in SeqsOf(Cells, n) :
            Idle(DropCol(Processed(RawFrame("datetime", "UTC", "Datetime", close,
                                            IF free = "High" THEN other ELSE Ones(n),
                                            IF free = "Low" THEN other ELSE Ones(n),
                                            IF free = "Volume" THEN other ELSE Ones(n))),
                         drop), "ok")

ApplyMetrics ==
    /\ pc = "args"
    /\ LET r == calculate_metrics(data)
       IN /\ metrics' = r.m
          /\ msgs' = Say("metrics", r.err)
    /\ input' = data
    /\ invoked' = invoked \cup {"calculate_metrics"}
    /\ pc' = "returned"
    /\ UNCHANGED <<ticker, period, chart_type, now, provider, calls, data, lib, shown>>

NextMetrics == ApplyMetrics

SpecMetrics == InitMetrics /\ [][NextMetrics]_vars

(* add_technical_indicators *)

MinRows == Window - 2

Prices == 1..MaxPrice

\* The closing prices of a long series: a head that is one price b (whole, with
\* its first two cells missing, with a hole, or missing altogether) and a tail
\* of TailLen free cells; the running averages then stay fractions of small
\* denominators.
HeadCells(kind, b, h) ==
    [i \in 1..h |->
        CASE kind = "whole" -> b
          [] kind = "late" -> IF i <= 2 THEN NaN ELSE b
          [] kind = "hole" -> IF i = 3 THEN NaN ELSE b
          [] OTHER -> NaN]

LongFrame(close, drop) ==
    DropCol(Processed(RawFrame("datetime", "UTC", "Datetime", close,
                               Ones(Len(close)), Ones(Len(close)), Ones(Len(close)))),
            drop)

InitIndicators ==
    \E kind \in {"whole", "late", "hole", "missing"}, b \in Prices,
       tail \in SeqsOf(Prices \cup {NaN}, TailLen), n \in MinRows..MaxRows,
       drop \in {"nothing", "Close"}, l \in Libs :
        Idle(LongFrame(HeadCells(kind, b, n - TailLen) \o tail, drop), l)

ApplyIndicators ==
    /\ pc = "args"
    /\ LET r == add_technical_indicators(data, lib)
       IN /\ data' = r.data
          /\ msgs' = Say("indicators", r.err)
    /\ input' = data
    /\ invoked' = invoked \cup {"add_technical_indicators"}
    /\ pc' = "returned"
    /\ UNCHANGED <<ticker, period, chart_type, now, provider, calls, metrics, lib, shown>>

NextIndicators == ApplyIndicators

SpecIndicators == InitIndicators /\ [][NextIndicators]_vars

-----------------------------------------------------------------------------
(* The claims *)

Said == {msgs[i] : i \in 1..Len(msgs)}

FetchedEmpty == provider.raises \/ IsEmpty(provider.frame)

Finished == pc \in {"raised", "caught", "done"}

\* C1: in a refresh whose fetch comes back empty (the provider returned no row,
\* or the retrieval raised) a message is shown and the refresh stops: no other
\* stage function is invoked, nothing is rendered, and the handler is never in
\* its except clause.
C1_EmptyFetchStops ==
    (pc # "idle" /\ FetchedEmpty) =>
        /\ pc \in {"fetched", "stopped"}
        /\ invoked = {"fetch_stock_data"}
        /\ shown = {}
        /\ msgs # <<>>
        /\ pc = "fetched" => (ENABLED StopEmpty /\ ~ENABLED Process)
        /\ pc = "stopped" => "no_data" \in Said

C1_Witness == pc = "stopped" /\ ~provider.raises /\ Said = {"fetch", "no_data"}

\* C7: one yf.download call per fetch; for '1wk' it carries start = now - 7 days
\* and end = now and no period keyword, for every other period it carries the
\* period keyword and no start or end; the interval is the one of the table.
C7_DownloadKeywords ==
    /\ pc = "idle" => calls = <<>>
    /\ pc # "idle" =>
        /\ Len(calls) = 1
        /\ calls[1].interval =
               (CASE period = "1d" -> "1m"
                  [] period = "1wk" -> "30m"
                  [] period = "1mo" -> "1d"
                  [] OTHER -> "1wk")
        /\ period = "1wk" =>
               /\ calls[1].kw = {"start", "end", "interval"}
               /\ calls[1].start = now - 7
               /\ calls[1].end = now
        /\ period # "1wk" =>
               /\ calls[1].kw = {"period", "interval"}
               /\ calls[1].period = period

C7_Witness ==
    /\ pc = "fetched"
    /\ period = "1wk"
    /\ "period" \notin calls[1].kw
    /\ calls[1].end - calls[1].start = 7

ZeroReference ==
    /\ HasCol(data, "Close")
    /\ Len(data.idx) > 0
    /\ data.cols["Close"].vals[1] = 0

AfterMetrics == pc \in {"measured", "metrics_shown", "charted", "tabled", "raised", "caught", "done"}

\* C4: when the Close of the first row is zero, calculate_metrics returns (it
\* does not raise), its percent change is 0, and the refresh goes on to render
\* the metrics.
C4_ZeroReference ==
    (AfterMetrics /\ ZeroReference) =>
        /\ metrics.pct = <<0, 1>>
        /\ pc = "measured" => ENABLED ShowMetrics
        /\ pc # "measured" => "metrics" \in shown

C4_Witness ==
    /\ pc = "metrics_shown"
    /\ ZeroReference
    /\ data.cols["Close"].vals[Len(data.idx)] > 0
    /\ "metrics" \in shown

CloseDegenerate(d) == ~HasCol(d, "Close") \/ AllNaN(d.cols["Close"].vals)

\* C9: after a fetch that is not empty every stage failure is contained and the
\* refresh ends with the table of the raw bars shown: with the Close column
\* absent or all missing no indicator is computed and the metrics are the zero
\* values, and a failure of process_data does not keep the bars from the table.
C9_PartialResultRendered ==
    (Finished /\ ~FetchedEmpty) =>
        /\ "table" \in shown
        /\ CloseDegenerate(data) =>
               /\ metrics = ZeroMetrics
               /\ ~HasCol(data, "SMA_20")
               /\ ~HasCol(data, "EMA_20")

-----------------------------------------------------------------------------
(* Claims about add_technical_indicators, under SpecIndicators *)

Returned == pc = "returned"

Failed == msgs # <<>>

CloseIn == input.cols["Close"].vals

CloseOut == data.cols["Close"].vals

Rows == 1..Len(data.idx)

\* C8: when add_technical_indicators reports an error it returns the series as
\* it was passed in: no Close cell filled or changed, no SMA_20 or EMA_20 column.
C8_FailureReturnsInput == (Returned /\ Failed) => data = input

EarlierPresent(i) == {j \in 1..(i - 1) : CloseIn[j] # NaN}

AllPresent == {j \in 1..Len(CloseIn) : CloseIn[j] # NaN}

Greatest(S) == CHOOSE m \in S : \A x \in S : x <= m

Least(S) == CHOOSE m \in S : \A x \in S : m <= x

\* C10: for a Close column with a present cell, after the fill no Close cell is
\* missing: a present cell is unchanged, a missing cell after the first present
\* one has the nearest earlier present value, and a missing cell before it has
\* the first present value.
C10_FillDense ==
    (Returned /\ HasCol(input, "Close") /\ AllPresent # {}) =>
        \A i \in Rows :
            /\ CloseOut[i] # NaN
            /\ CloseIn[i] # NaN => CloseOut[i] = CloseIn[i]
            /\ (CloseIn[i] = NaN /\ EarlierPresent(i) # {}) =>
                   CloseOut[i] = CloseIn[Greatest(EarlierPresent(i))]
            /\ (CloseIn[i] = NaN /\ EarlierPresent(i) = {}) =>
                   CloseOut[i] = CloseIn[Least(AllPresent)]

C10_Witness ==
    /\ Returned
    /\ HasCol(input, "Close")
    /\ CloseIn[1] = NaN
    /\ \E i \in Rows : i > 3 /\ CloseIn[i] = NaN /\ CloseIn[i - 1] # NaN
                       /\ CloseOut[i] # CloseOut[1]

RECURSIVE SumFrom(_, _, _)
SumFrom(s, lo, hi) == IF lo > hi THEN 0 ELSE s[lo] + SumFrom(s, lo + 1, hi)

Sma == data.cols["SMA_20"].vals

Ema == data.cols["EMA_20"].vals

\* C5: after add_technical_indicators SMA_20 at row i >= 19 (0-based) is the
\* mean of the closing prices of rows i-19..i, and it is missing at rows 0..18;
\* with fewer than 20 rows it is missing at every row.
C5_SmaIsWindowMean ==
    (Returned /\ ~Failed) =>
        \A i \in Rows :
            IF i >= 20
            THEN /\ Sma[i][2] > 0
                 /\ Sma[i][1] * 20 = Sma[i][2] * SumFrom(CloseOut, i - 19, i)
            ELSE IsNaNF(Sma[i])

C5_Witness ==
    /\ Returned
    /\ ~Failed
    /\ Len(data.idx) >= 21
    /\ CloseIn = CloseOut
    /\ ~IsNaNF(Sma[21])
    /\ Sma[21] # Sma[20]
    /\ Sma[21][2] # 1

\* C6 as claimed: EMA_20 is seeded by the simple average of the first 20 closing
\* prices (its first value, at row 19, is SMA_20 of row 19) and at every later row
\* it is alpha * Close + (1 - alpha) * the previous EMA_20, with alpha = 2 / 21.
C6_SeededBySma ==
    (Returned /\ ~Failed /\ Len(data.idx) >= 20) =>
        /\ Ema[20] = Sma[20]
        /\ \A i \in Rows : i > 20 =>
               Ema[i] = Frac(2 * CloseOut[i] * Ema[i - 1][2] + 19 * Ema[i - 1][1],
                             21 * Ema[i - 1][2])

\* e[0] = Close[0], e[i] = alpha * Close[i] + (1 - alpha) * e[i-1], alpha = 2 / 21
RECURSIVE SeededByFirst(_, _)
SeededByFirst(c, i) ==
    IF i = 1 THEN <<c[1], 1>>
    ELSE LET e == SeededByFirst(c, i - 1)
         IN Frac(2 * c[i] * e[2] + 19 * e[1], 21 * e[2])

\* C6 as amended: EMA_20 is the exponential average with alpha = 2 / 21 seeded by
\* the first closing price (row 0); it is missing at rows 0..18, at row 19 it is
\* that running value (not SMA_20), and at every later row it is
\* alpha * Close + (1 - alpha) * the previous EMA_20.
C6_SeededByFirstClose ==
    (Returned /\ ~Failed) =>
        \A i \in Rows :
            /\ i < 20 => IsNaNF(Ema[i])
            /\ i >= 20 => Ema[i] = SeededByFirst(CloseOut, i)
            /\ i > 20 =>
                   Ema[i] = Frac(2 * CloseOut[i] * Ema[i - 1][2] + 19 * Ema[i - 1][1],
                                 21 * Ema[i - 1][2])

C6_Witness ==
    /\ Returned
    /\ ~Failed
    /\ Len(data.idx) >= 21
    /\ Ema[20] # Sma[20]
    /\ Ema[21] # Ema[20]

-----------------------------------------------------------------------------
(* Claims about calculate_metrics, under SpecMetrics *)

MClose == input.cols["Close"].vals

MLast == MClose[Len(MClose)]

MFirst == MClose[1]

IsMax(m, s) == (\A i \in 1..Len(s) : s[i] <= m) /\ (\E i \in 1..Len(s) : s[i] = m)

IsMin(m, s) == (\A i \in 1..Len(s) : s[i] >= m) /\ (\E i \in 1..Len(s) : s[i] = m)

\* The six values by their definitions; a missing Close makes what is computed
\* from it missing.
MetricsAsDefined ==
    /\ metrics.last = ToFloat(MLast)
    /\ IF MLast = NaN \/ MFirst = NaN
       THEN IsNaNF(metrics.change) /\ IsNaNF(metrics.pct)
       ELSE /\ metrics.change = <<MLast - MFirst, 1>>
            /\ metrics.pct[2] > 0
            /\ metrics.pct[1] * MFirst = (MLast - MFirst) * 100 * metrics.pct[2]
    /\ metrics.high[2] = 1 /\ IsMax(metrics.high[1], input.cols["High"].vals)
    /\ metrics.low[2] = 1 /\ IsMin(metrics.low[1], input.cols["Low"].vals)
    /\ metrics.volume = <<SumFrom(input.cols["Volume"].vals, 1, Len(MClose)), 1>>

Complete == {"Close", "High", "Low", "Volume"} \subseteq DOMAIN input.cols

AllZero ==
    \A f \in {"last", "change", "pct", "high", "low", "volume"} : metrics[f] = <<0, 1>>

\* C3 as claimed: for every series with a row (and the four columns), last is
\* the Close of the final row, change is last minus the Close of the first row,
\* percent change is change / first Close * 100, high is the maximum of High,
\* low the minimum of Low, volume the sum of Volume, each by its own definition
\* whatever happens to the others.
C3_EachByItsDefinition == (Returned /\ Complete) => MetricsAsDefined

\* C3 as amended: the six values are as defined when the four columns are there
\* and the Close of the first row is not zero; when it is zero the division
\* raises, and when a column is absent the lookup raises, and then an error is
\* reported and all six are returned as 0.
C3_DefinedOrAllZero ==
    Returned =>
        IF ~Complete \/ MFirst = 0
        THEN AllZero /\ Failed
        ELSE MetricsAsDefined /\ ~Failed

C3_Witness ==
    /\ Returned
    /\ Complete
    /\ MFirst > 0
    /\ MLast # NaN
    /\ MLast # MFirst
    /\ metrics.pct[2] > 0
    /\ metrics.pct[1] # 0
    /\ \E i \in 1..Len(MClose) : input.cols["High"].vals[i] # metrics.high[1]

-----------------------------------------------------------------------------
(* Claims about process_data, under SpecNormalize *)

\* C2 as claimed: process_data applied to its own result gives that result
\* again, with no error reported.
C2_Idempotent == pc = "twice" => (data = input /\ msgs = <<>>)

\* C2 as amended: process_data applied to a fetched series reports nothing and
\* gives the same rows with the time index as the column Datetime in US/Eastern
\* (the instants of an index that is in US/Eastern already are unchanged);
\* applied to that result, whose index is no time index any more, it reports an
\* error and returns an empty table.
C2_OnceThenError ==
    /\ pc = "once" =>
           /\ msgs = <<>>
           /\ DOMAIN data.cols = DOMAIN input.cols \cup {"Datetime"}
           /\ data.cols["Datetime"] = [tz |-> "US/Eastern", vals |-> input.idx]
           /\ \A c \in DOMAIN input.cols : data.cols[c] = input.cols[c]
           /\ Len(data.idx) = Len(input.idx)
    /\ pc = "twice" =>
           /\ msgs = <<"process">>
           /\ IsEmpty(data)
           /\ ~IsEmpty(input)

C2_Witness ==
    /\ pc = "twice"
    /\ input.cols["Datetime"].tz = "US/Eastern"
    /\ Len(input.idx) = 2
    /\ data = EmptyFrame

=============================================================================
